---- MODULE Spec2Model ----
(***************************************************************************)
(* Discrete-event simulation of the Markovian queueing system of pa1.py:   *)
(* MarkovianQueueingSystem (the state machine and its accumulators) driven *)
(* by Simulator (the event list and the driver loop).                      *)
(*                                                                         *)
(* Abstractions.  Times are integer ticks.  A Uniform generator is         *)
(* represented by the number of calls made to it and, for the admission    *)
(* generator, by its seed: the seed is the value of the last call, chosen  *)
(* from UniformValues and read as seed / UniformDenominator (the code      *)
(* returns seed / m).  An Exponential generator returns                    *)
(* -1/rate * log(u) with 0 < u < 1: a duration whose sign is the sign of   *)
(* the rate and whose length is the shortest (1 tick) or the longest       *)
(* (MaxServiceInterval for the service generator, MaxArrivalInterval for   *)
(* the arrival generator), or a ZeroDivisionError when the rate is 0.      *)
(* Every Uniform starts from the seed 1234, so the value of its n-th call  *)
(* is the same in every instance: stream keeps, for each of the three      *)
(* generators of a run, the values chosen so far, and the n-th call of a   *)
(* later instance returns the n-th value kept.  The values and the events  *)
(* a run prints are kept only where the sweep of the main program, which   *)
(* makes several runs, is followed (sweep).                                *)
(***************************************************************************)
EXTENDS Integers, Sequences, FiniteSets, TLC

\* ---------------------------------------------------------------- bounds
MaxK == 3
MaxTimes == 2
MaxArrivalInterval == 2
MaxServiceInterval == 5
UniformDenominator == 4
MaxRuns == 2
\* a run with positive rates and n target departures generates fewer
\* customers than this (see CapNotReached); other runs are cut off here
MaxCustomers(n) == (MaxArrivalInterval + MaxServiceInterval) * n + 2

\* ------------------------------------------------------------- constants
\* number of servers usable at or above capacity K
m == 2
\* value of usable_server when no branch returns (Python None)
None == 0 - 1

VARIABLES
    K,                      \* constructor argument K
    mu,                     \* constructor argument mu (service rate)
    lambda_,                \* constructor argument lambda_ (arrival rate)
    times,                  \* constructor argument times (target departures)
    pc,                     \* position of the main program
    mqs,                    \* the MarkovianQueueingSystem object
    event_list,             \* Simulator._event_list
    total_number,           \* customers generated so far
    departure_event_number, \* departures popped so far
    arrival_calls,          \* calls made to Simulator._arrival_interval
    raised,                 \* the last exception raised, "None" if none
    sweep,                  \* the runs are those of the main program's sweep
    stream,                 \* the values of the n-th calls of the generators
    printed,                \* the events printed by the run
    results                 \* the statistics collected after each run

vars == <<K, mu, lambda_, times, pc, mqs, event_list, total_number,
          departure_event_number, arrival_calls, raised, sweep, stream,
          printed, results>>

\* ------------------------------------------------------------ generators
UniformValues == 1..(UniformDenominator - 1)

\* u >= 0.5 for the variate u / UniformDenominator
AtLeastHalf(u) == 2 * u >= UniformDenominator

\* the outcomes of one call of Exponential(rate)
Exponential(rate, bound) ==
    IF rate = 0
    THEN {[raise |-> TRUE, value |-> 0]}
    ELSE {[raise |-> FALSE, value |-> IF rate > 0 THEN d ELSE 0 - d] :
             d \in {1, bound}}

\* the result of a generator that is not called
NoDraw == [raise |-> FALSE, value |-> 0]

\* the values the n-th call of a generator can return: the value an earlier
\* instance returned at its n-th call, any value at the first n-th call
nth_call(kept, n, values) ==
    IF n \in DOMAIN kept THEN {kept[n]} ELSE values

\* the values kept after a step that leaves the system as s1 with
\* service time op, and the arrival generator at calls calls with
\* inter-arrival time ai
recorded(st, s1, op, calls, ai) ==
    IF ~ sweep THEN st ELSE
    [uniform |-> IF s1.exists /\ s1.uniform_calls > Len(st.uniform)
                 THEN Append(st.uniform, s1.uniform_seed)
                 ELSE st.uniform,
     service |-> IF s1.exists /\ s1.service_calls > Len(st.service)
                 THEN Append(st.service, op)
                 ELSE st.service,
     arrival |-> IF calls > Len(st.arrival)
                 THEN Append(st.arrival, ai)
                 ELSE st.arrival]

\* ---------------------------------------------------------------- events
Event(t, time, customer) == [t |-> t, time |-> time, customer |-> customer]

\* ------------------------------------------------- MarkovianQueueingSystem
NoMqs == [exists |-> FALSE]

\* variant: the test is K < 1
valid_K_from_1(k) == ~ (k < 1)

\* line 82: the constructor's test of K
valid_K(k) == ~ (k < 2)

\* variant: the generators of a new system go on from the positions
\* of the generators of the system before it
NewMqs_shared_generators(k, rate) ==
    [exists |-> TRUE, m |-> m, K |-> k, mu |-> rate,
     current_time |-> 0, queue |-> <<>>, used_server |-> 0,
     uniform_seed |-> IF mqs.exists THEN mqs.uniform_seed ELSE 0,
     uniform_calls |-> IF mqs.exists THEN mqs.uniform_calls ELSE 0,
     service_calls |-> IF mqs.exists THEN mqs.service_calls ELSE 0,
     total_operation_time |-> 0, blocked_number |-> 0, total_time |-> 0,
     expected_number |-> 0, number_time_product_sum |-> 0]

\* lines 65-80: the state of a new system; its generators are new
NewMqs(k, rate) ==
    [exists |-> TRUE, m |-> m, K |-> k, mu |-> rate,
     current_time |-> 0, queue |-> <<>>, used_server |-> 0,
     uniform_seed |-> 0, uniform_calls |-> 0, service_calls |-> 0,
     total_operation_time |-> 0, blocked_number |-> 0, total_time |-> 0,
     expected_number |-> 0, number_time_product_sum |-> 0]

customer_number(s) == Len(s.queue) + s.used_server

\* variant: one more server is usable at or above capacity
usable_server_one_more(s) ==
    IF customer_number(s) < s.K THEN 1
    ELSE IF customer_number(s) <= 2 * s.K THEN s.m + 1
    ELSE None

\* lines 89-94
usable_server(s) ==
    IF customer_number(s) < s.K THEN 1
    ELSE IF customer_number(s) <= 2 * s.K THEN s.m
    ELSE None

\* the exception idle_server raises, "None" when it returns
idle_server_raises(s) ==
    IF usable_server(s) = None THEN "TypeError"
    ELSE IF ~ (0 <= usable_server(s) - s.used_server
               /\ usable_server(s) - s.used_server <= usable_server(s))
         THEN "AssertionError"
         ELSE "None"

idle_server(s) == usable_server(s) - s.used_server

\* variant: the customer count is weighted by the time of the event
advance_time_from_zero(s, e) ==
    [s EXCEPT !.current_time = e.time,
              !.number_time_product_sum = @ + customer_number(s) * e.time]

\* lines 106-108: advance the clock and integrate the customer count
advance_time(s, e) ==
    [s EXCEPT !.current_time = e.time,
              !.number_time_product_sum =
                  @ + customer_number(s) * (e.time - s.current_time)]

\* variant: the variate is drawn before the capacity test
draws_uniform_eagerly(s) == ~ (customer_number(s) < s.K)

\* line 113: the uniform variate is drawn only when the first test fails
\* and the left operand of "and" holds
draws_uniform(s) ==
    /\ ~ (customer_number(s) < s.K)
    /\ customer_number(s) < 2 * s.K

\* variant: the ceiling test is customer_number <= 2K
admits_up_to_ceiling(s, u) ==
    \/ customer_number(s) < s.K
    \/ customer_number(s) <= 2 * s.K /\ AtLeastHalf(u)

\* variant: the first test is customer_number < K - 1
admits_below_capacity_less_one(s, u) ==
    \/ customer_number(s) < s.K - 1
    \/ customer_number(s) < 2 * s.K /\ AtLeastHalf(u)

\* variant: the variate test is u < 0.5
admits_on_low_variate(s, u) ==
    \/ customer_number(s) < s.K
    \/ customer_number(s) < 2 * s.K /\ ~ AtLeastHalf(u)

\* lines 111-115: the arrival is appended to the queue
admits(s, u) ==
    \/ customer_number(s) < s.K
    \/ customer_number(s) < 2 * s.K /\ AtLeastHalf(u)

\* variant: a blocked customer is not counted
apply_event_uncounted_block(s, e, u) ==
    IF e.t = "a"
    THEN LET s1 == IF draws_uniform(s)
                   THEN [s EXCEPT !.uniform_seed = u,
                                  !.uniform_calls = @ + 1]
                   ELSE s
         IN  IF admits(s, u)
             THEN [mqs |-> [s1 EXCEPT !.queue = Append(@, e)],
                   raised |-> "None"]
             ELSE [mqs |-> s1, raised |-> "Blocked"]
    ELSE [mqs |-> [s EXCEPT !.used_server = @ - 1], raised |-> "None"]

\* variant: a departure that does not release its server
apply_event_keeps_server(s, e, u) ==
    IF e.t = "a"
    THEN LET s1 == IF draws_uniform(s)
                   THEN [s EXCEPT !.uniform_seed = u,
                                  !.uniform_calls = @ + 1]
                   ELSE s
         IN  IF admits(s, u)
             THEN [mqs |-> [s1 EXCEPT !.queue = Append(@, e)],
                   raised |-> "None"]
             ELSE [mqs |-> [s1 EXCEPT !.blocked_number = @ + 1],
                   raised |-> "Blocked"]
    ELSE [mqs |-> s, raised |-> "None"]

\* lines 110-119: the transition of the event itself
apply_event(s, e, u) ==
    IF e.t = "a"
    THEN LET s1 == IF draws_uniform(s)
                   THEN [s EXCEPT !.uniform_seed = u,
                                  !.uniform_calls = @ + 1]
                   ELSE s
         IN  IF admits(s, u)
             THEN [mqs |-> [s1 EXCEPT !.queue = Append(@, e)],
                   raised |-> "None"]
             ELSE [mqs |-> [s1 EXCEPT !.blocked_number = @ + 1],
                   raised |-> "Blocked"]
    ELSE [mqs |-> [s EXCEPT !.used_server = @ - 1], raised |-> "None"]

\* variant: the customer taken is the last of the queue
start_service_last_in(s, op) ==
    IF ~ (customer_number(s) > 0)
    THEN [mqs |-> s, raised |-> "None", ret |-> <<>>]
    ELSE IF idle_server_raises(s) # "None"
    THEN [mqs |-> s, raised |-> idle_server_raises(s), ret |-> <<>>]
    ELSE IF ~ (idle_server(s) > 0)
    THEN [mqs |-> s, raised |-> "None", ret |-> <<>>]
    ELSE IF s.queue = <<>>
    THEN [mqs |-> s, raised |-> "IndexError", ret |-> <<>>]
    ELSE LET arrival_event == s.queue[Len(s.queue)]
             s1 == [s EXCEPT !.queue = SubSeq(@, 1, Len(@) - 1)]
         IN  IF op.raise
             THEN [mqs |-> s1, raised |-> "ZeroDivisionError", ret |-> <<>>]
             ELSE [mqs |-> [s1 EXCEPT
                       !.service_calls = @ + 1,
                       !.total_operation_time = @ + op.value,
                       !.total_time =
                           s.current_time - arrival_event.time + op.value,
                       !.used_server = @ + 1],
                   raised |-> "None",
                   ret |-> <<Event("d", s.current_time + op.value,
                                   arrival_event.customer)>>]

\* variant: total_time is the service time, without the time in the queue
start_service_without_wait(s, op) ==
    IF ~ (customer_number(s) > 0)
    THEN [mqs |-> s, raised |-> "None", ret |-> <<>>]
    ELSE IF idle_server_raises(s) # "None"
    THEN [mqs |-> s, raised |-> idle_server_raises(s), ret |-> <<>>]
    ELSE IF ~ (idle_server(s) > 0)
    THEN [mqs |-> s, raised |-> "None", ret |-> <<>>]
    ELSE IF s.queue = <<>>
    THEN [mqs |-> s, raised |-> "IndexError", ret |-> <<>>]
    ELSE LET arrival_event == Head(s.queue)
             s1 == [s EXCEPT !.queue = Tail(@)]
         IN  IF op.raise
             THEN [mqs |-> s1, raised |-> "ZeroDivisionError", ret |-> <<>>]
             ELSE [mqs |-> [s1 EXCEPT
                       !.service_calls = @ + 1,
                       !.total_operation_time = @ + op.value,
                       !.total_time = op.value,
                       !.used_server = @ + 1],
                   raised |-> "None",
                   ret |-> <<Event("d", s.current_time + op.value,
                                   arrival_event.customer)>>]

\* lines 121-127: start the service of the head of the queue
start_service(s, op) ==
    IF ~ (customer_number(s) > 0)
    THEN [mqs |-> s, raised |-> "None", ret |-> <<>>]
    ELSE IF idle_server_raises(s) # "None"
    THEN [mqs |-> s, raised |-> idle_server_raises(s), ret |-> <<>>]
    ELSE IF ~ (idle_server(s) > 0)
    THEN [mqs |-> s, raised |-> "None", ret |-> <<>>]
    ELSE IF s.queue = <<>>
    THEN [mqs |-> s, raised |-> "IndexError", ret |-> <<>>]
    ELSE LET arrival_event == Head(s.queue)
             s1 == [s EXCEPT !.queue = Tail(@)]
         IN  IF op.raise
             THEN [mqs |-> s1, raised |-> "ZeroDivisionError", ret |-> <<>>]
             ELSE [mqs |-> [s1 EXCEPT
                       !.service_calls = @ + 1,
                       !.total_operation_time = @ + op.value,
                       !.total_time =
                           s.current_time - arrival_event.time + op.value,
                       !.used_server = @ + 1],
                   raised |-> "None",
                   ret |-> <<Event("d", s.current_time + op.value,
                                   arrival_event.customer)>>]

\* lines 121-123: the call reaches the draw of the service time
draws_service(s) ==
    /\ customer_number(s) > 0
    /\ idle_server_raises(s) = "None"
    /\ idle_server(s) > 0
    /\ s.queue # <<>>

\* line 113: the values self._uniform() can return in this call; the seed
\* stays as it is when the generator is not called
uniform_draws(s, e) ==
    IF e.t = "a" /\ draws_uniform(s)
    THEN nth_call(stream.uniform, s.uniform_calls + 1, UniformValues)
    ELSE {s.uniform_seed}

\* line 123: the values self._service_interval() can return in this call
service_draws(s, e, u) ==
    IF /\ apply_event(advance_time(s, e), e, u).raised = "None"
       /\ draws_service(apply_event(advance_time(s, e), e, u).mqs)
    THEN nth_call(stream.service, s.service_calls + 1,
                  Exponential(s.mu, MaxServiceInterval))
    ELSE {NoDraw}

\* variant: the departure event of the service started is not returned
process_event_returns_nothing(s, e, u, op) ==
    LET r == apply_event(advance_time(s, e), e, u)
    IN  IF r.raised # "None"
        THEN [mqs |-> r.mqs, raised |-> r.raised, ret |-> <<>>]
        ELSE [start_service(r.mqs, op) EXCEPT !.ret = <<>>]

\* lines 102-127
process_event(s, e, u, op) ==
    LET r == apply_event(advance_time(s, e), e, u)
    IN  IF r.raised # "None"
        THEN [mqs |-> r.mqs, raised |-> r.raised, ret |-> <<>>]
        ELSE start_service(r.mqs, op)

\* ------------------------------------------------------------- Simulator
\* the position of list[j] after a stable sort by time: behind every event
\* with a smaller time and every earlier event with the same time
sorted_position(list, j) ==
    1 + Cardinality({k \in DOMAIN list :
                        \/ list[k].time < list[j].time
                        \/ list[k].time = list[j].time /\ k < j})

\* variant: a sort that reverses the order of events with equal times
sort_by_time_unstable(list) ==
    [i \in DOMAIN list |->
        list[CHOOSE j \in DOMAIN list :
                 1 + Cardinality({k \in DOMAIN list :
                        \/ list[k].time < list[j].time
                        \/ list[k].time = list[j].time /\ k > j}) = i]]

\* list.sort(key=lambda e: e.time): a stable sort
sort_by_time(list) ==
    [i \in DOMAIN list |->
        list[CHOOSE j \in DOMAIN list : sorted_position(list, j) = i]]

append_event(list, e) == sort_by_time(Append(list, e))

\* variant: the loop test is <=
loop_test_inclusive(den, n) == den <= n

\* line 155: the loop test
loop_test(den, n) == den < n

\* variant: the next arrival is generated in the else clause
regenerates_when_admitted(event, exc) == event.t = "a" /\ exc = "None"

\* lines 171-172: the finally clause runs whatever process_event raised
regenerates(event, exc) == event.t = "a"

\* variant: the handler does not catch the blocked-customer exception
caught_but_blocked(exc) ==
    exc \in {"AssertionError", "TypeError", "IndexError",
             "ZeroDivisionError", "ValueError"}

\* line 174: the values self._arrival_interval() can return in this iteration
arrival_draws(rate, event, exc) ==
    IF regenerates(event, exc)
    THEN nth_call(stream.arrival, arrival_calls + 1,
                  Exponential(rate, MaxArrivalInterval))
    ELSE {NoDraw}

\* line 166: the exceptions the driver's handler catches
caught(exc) ==
    exc \in {"Blocked", "AssertionError", "TypeError", "IndexError",
             "ZeroDivisionError", "ValueError"}

\* ---------------------------------------------------------------- states
Ks == 2..MaxK
AllKs == 0..MaxK
Rates == {0 - 1, 0, 1}
PositiveRates == {r \in Rates : r > 0}

InitWith(ks, rates, ns, sw) ==
    /\ K \in ks
    /\ mu \in rates
    /\ lambda_ \in rates
    /\ times \in ns
    /\ pc = "new"
    /\ mqs = NoMqs
    /\ event_list = <<>>
    /\ total_number = 0
    /\ departure_event_number = 0
    /\ arrival_calls = 0
    /\ raised = "None"
    /\ sweep = sw
    /\ stream = [uniform |-> <<>>, service |-> <<>>, arrival |-> <<>>]
    /\ printed = <<>>
    /\ results = <<>>

Init == InitWith(Ks, PositiveRates, 1..MaxTimes, FALSE)

\* any configuration, runs of one departure
InitConfig == InitWith(AllKs, Rates, {1}, FALSE)

\* valid configurations, runs of one departure
InitApi == InitWith(Ks, PositiveRates, {1}, FALSE)

\* the minimum capacity, where both servers and the ceiling 2K are reached
\* soonest, with every target
InitLive == InitWith({2}, PositiveRates, 1..MaxTimes, FALSE)

\* a sweep at the minimum capacity
InitSweep == InitWith({2}, PositiveRates, {1}, TRUE)

\* --------------------------------------------------------------- actions
\* lines 191-194: what the main program keeps of a run, with the events
\* the run printed and the arrival rate of the run
Statistics ==
    [lambda_ |-> lambda_,
     printed |-> printed,
     number_time_product_sum |-> mqs.number_time_product_sum,
     current_time |-> mqs.current_time,
     total_time |-> mqs.total_time,
     blocked_number |-> mqs.blocked_number,
     total_operation_time |-> mqs.total_operation_time,
     times |-> times,
     m |-> mqs.m]

\* lines 186-187: MarkovianQueueingSystem(K, mu) and Simulator(MQS, lambda_)
Construct ==
    /\ pc = "new"
    /\ IF ~ valid_K(K)
       THEN /\ pc' = "error"
            /\ raised' = "ValueError"
            /\ mqs' = NoMqs
       ELSE /\ pc' = "constructed"
            /\ raised' = "None"
            /\ mqs' = NewMqs(K, mu)
    /\ event_list' = <<>>
    /\ arrival_calls' = 0
    /\ UNCHANGED <<K, mu, lambda_, times, total_number,
                   departure_event_number, sweep, stream, printed, results>>

\* lines 147-155: the first arrival event and the first loop test
Seed ==
    /\ pc = "constructed"
    /\ \E ai \in nth_call(stream.arrival, arrival_calls + 1,
                           Exponential(lambda_, MaxArrivalInterval)) :
         IF ai.raise
         THEN /\ pc' = "error"
              /\ raised' = "ZeroDivisionError"
              /\ UNCHANGED <<event_list, arrival_calls, stream>>
         ELSE /\ pc' = IF loop_test(0, times) THEN "running"
                                                ELSE "finished"
              /\ raised' = "None"
              /\ arrival_calls' = arrival_calls + 1
              /\ stream' = recorded(stream, mqs, NoDraw,
                                    arrival_calls + 1, ai)
              /\ event_list' = append_event(event_list,
                                            Event("a", ai.value, 1))
    /\ total_number' = 1
    /\ departure_event_number' = 0
    /\ UNCHANGED <<K, mu, lambda_, times, mqs, sweep, printed, results>>

\* lines 155-174: one iteration of the driver loop and the next loop test
Step ==
    /\ pc = "running"
    /\ total_number < MaxCustomers(times)
    \* a run whose clock falls below 0 (negative rates) is followed no further
    /\ mqs.current_time >= 0
    /\ IF event_list = <<>>
       THEN /\ pc' = "error"
            /\ raised' = "IndexError"
            /\ UNCHANGED <<mqs, event_list, total_number,
                           departure_event_number, arrival_calls, stream,
                           printed>>
       ELSE \E u \in uniform_draws(mqs, Head(event_list)) :
            \E op \in service_draws(mqs, Head(event_list), u) :
            \E r \in {process_event(mqs, Head(event_list), u, op)} :
            \E ai \in arrival_draws(lambda_, Head(event_list), r.raised) :
         LET event == Head(event_list)
             den == IF event.t = "d" THEN departure_event_number + 1
                                     ELSE departure_event_number
             list1 == IF r.raised = "None" /\ r.ret # <<>>
                      THEN append_event(Tail(event_list), r.ret[1])
                      ELSE Tail(event_list)
         IN  /\ departure_event_number' = den
             /\ printed' = IF sweep THEN Append(printed, event)
                                     ELSE printed
             /\ mqs' = r.mqs
             /\ IF ~ caught(r.raised) /\ r.raised # "None"
                THEN /\ pc' = "error"
                     /\ raised' = r.raised
                     /\ event_list' = list1
                     /\ stream' = recorded(stream, r.mqs, op,
                                           arrival_calls, ai)
                     /\ UNCHANGED <<total_number, arrival_calls>>
                ELSE IF regenerates(event, r.raised)
                THEN /\ total_number' = total_number + 1
                     /\ IF ai.raise
                        THEN /\ pc' = "error"
                             /\ raised' = "ZeroDivisionError"
                             /\ event_list' = list1
                             /\ stream' = recorded(stream, r.mqs, op,
                                                   arrival_calls, ai)
                             /\ UNCHANGED arrival_calls
                        ELSE /\ pc' = IF loop_test(den, times)
                                         THEN "running" ELSE "finished"
                             /\ raised' = r.raised
                             /\ arrival_calls' = arrival_calls + 1
                             /\ stream' = recorded(stream, r.mqs, op,
                                                   arrival_calls + 1, ai)
                             /\ event_list' = append_event(list1,
                                   Event("a", r.mqs.current_time + ai.value,
                                         total_number + 1))
                ELSE /\ pc' = IF loop_test(den, times) THEN "running"
                                                         ELSE "finished"
                     /\ raised' = r.raised
                     /\ event_list' = list1
                     /\ stream' = recorded(stream, r.mqs, op,
                                           arrival_calls, ai)
                     /\ UNCHANGED <<total_number, arrival_calls>>
    /\ UNCHANGED <<K, mu, lambda_, times, sweep, results>>

\* lines 102-127: process_event is a public method; a client calls it once
\* on the new system before handing the system to the Simulator
DirectCall ==
    /\ pc = "constructed"
    /\ mqs = NewMqs(K, mu)
    /\ \E t \in {"a", "d"}, u \in UniformValues,
          op \in Exponential(mqs.mu, MaxServiceInterval) :
         LET r == process_event(mqs, Event(t, 0, 0), u, op)
         IN  /\ mqs' = r.mqs
             /\ raised' = r.raised
             /\ pc' = IF r.raised = "None" THEN "constructed" ELSE "error"
             /\ stream' = recorded(stream, r.mqs, op, arrival_calls, NoDraw)
    /\ UNCHANGED <<K, mu, lambda_, times, event_list, total_number,
                   departure_event_number, arrival_calls, sweep, printed,
                   results>>

\* lines 185-194: the statistics of the run that has finished are
\* collected and the sweep goes on to its next run, whose arrival rate is
\* a function of rho
NextRun ==
    /\ pc = "finished"
    /\ Len(results) < MaxRuns
    /\ results' = Append(results, Statistics)
    /\ printed' = <<>>
    /\ pc' = IF Len(results) + 1 < MaxRuns THEN "new" ELSE "done"
    /\ lambda_' \in PositiveRates
    /\ UNCHANGED <<K, mu, times, mqs, event_list, total_number,
                   departure_event_number, arrival_calls, raised, sweep,
                   stream>>

Next == Construct \/ Seed \/ Step

NextSweep == Construct \/ Seed \/ Step \/ NextRun

NextApi == Construct \/ DirectCall \/ Seed \/ Step

Spec == Init /\ [][Next]_vars

SpecSweep == InitSweep /\ [][NextSweep]_vars

SpecConfig == InitConfig /\ [][Next]_vars

SpecApi == InitApi /\ [][NextApi]_vars

\* the generators return finite positive values, so each enabled step of the
\* single-threaded program is eventually taken
FairSpec == InitLive /\ [][Next]_vars /\ WF_vars(Next)

\* ------------------------------------------------------- auxiliary checks
\* the guard on total_number never stops a run with positive rates
CapNotReached ==
    pc = "running" => /\ total_number < MaxCustomers(times)
                      /\ mqs.current_time >= 0

\* ---------------------------------------------------------------- claims
\* the number of events of kind t in an event list
NumberOf(list, t) == Cardinality({i \in DOMAIN list : list[i].t = t})

\* C1: in every state of a run of the Simulator the customer count is at
\* most 2K, usable_server is 1 or 2, 0 <= idle_server <= usable_server, and
\* neither the assertion of idle_server nor the missing return value of
\* usable_server has raised.
C1_IdleServerBound ==
    mqs.exists =>
        /\ customer_number(mqs) <= 2 * mqs.K
        /\ usable_server(mqs) \in {1, 2}
        /\ 0 <= usable_server(mqs) - mqs.used_server
        /\ usable_server(mqs) - mqs.used_server <= usable_server(mqs)
        /\ raised \notin {"AssertionError", "TypeError"}

\* the system is full: 2K customers, both servers busy
C1_Witness ==
    /\ pc = "running"
    /\ customer_number(mqs) = 2 * mqs.K
    /\ mqs.used_server = 2
    /\ usable_server(mqs) - mqs.used_server = 0

\* C2: an arrival handled while the customer count is at least 2K is
\* blocked (blocked_number + 1, queue unchanged, the blocked exception
\* raised) and the uniform generator is not called, whatever it would return.
C2_BlockedAtCeiling ==
    [][(/\ pc = "running"
        /\ event_list # <<>>
        /\ Head(event_list).t = "a"
        /\ customer_number(mqs) >= 2 * mqs.K)
       => /\ mqs'.blocked_number = mqs.blocked_number + 1
          /\ mqs'.queue = mqs.queue
          /\ raised' = "Blocked"
          /\ mqs'.uniform_calls = mqs.uniform_calls
          /\ mqs'.uniform_seed = mqs.uniform_seed]_vars

\* an arrival has just been blocked by a system holding 2K customers
C2_Witness ==
    /\ pc = "running"
    /\ raised = "Blocked"
    /\ customer_number(mqs) = 2 * mqs.K
    /\ mqs.blocked_number >= 1

\* C3: an arrival handled while the customer count is below K is admitted:
\* it joins the queue (or goes from the queue straight into service),
\* blocked_number is unchanged and no blocked exception is raised,
\* whatever the uniform generator would return.
C3_AdmittedBelowCapacity ==
    [][(/\ pc = "running"
        /\ event_list # <<>>
        /\ Head(event_list).t = "a"
        /\ customer_number(mqs) < mqs.K)
       => /\ mqs'.blocked_number = mqs.blocked_number
          /\ raised' # "Blocked"
          /\ customer_number(mqs') = customer_number(mqs) + 1
          /\ \/ \E i \in DOMAIN mqs'.queue :
                    mqs'.queue[i] = Head(event_list)
             \/ \E i \in DOMAIN event_list' :
                    /\ event_list'[i].t = "d"
                    /\ event_list'[i].customer = Head(event_list).customer
          /\ mqs'.uniform_calls = mqs.uniform_calls]_vars

\* an arrival was admitted below capacity and waits behind the one in service
C3_Witness ==
    /\ pc = "running"
    /\ Len(mqs.queue) >= 1
    /\ customer_number(mqs) < mqs.K
    /\ mqs.blocked_number = 0
    /\ departure_event_number = 0

\* C4: an arrival handled while K <= customer count < 2K draws exactly one
\* uniform variate and is admitted if and only if that variate is at least
\* 0.5, otherwise blocked; no other event draws a uniform variate; the
\* service generator is called once per service start and the arrival
\* generator once per customer generated, in each iteration and in total.
C4_VariateCalls ==
    /\ [][(pc = "running" /\ event_list # <<>>) =>
          LET e == Head(event_list)
              n == customer_number(mqs)
              starts == NumberOf(event_list', "d")
                        - NumberOf(Tail(event_list), "d")
          IN  /\ (e.t = "a" /\ mqs.K <= n /\ n < 2 * mqs.K) =>
                   /\ mqs'.uniform_calls = mqs.uniform_calls + 1
                   /\ 2 * mqs'.uniform_seed >= UniformDenominator =>
                        /\ raised' = "None"
                        /\ mqs'.blocked_number = mqs.blocked_number
                        /\ customer_number(mqs') = n + 1
                   /\ 2 * mqs'.uniform_seed < UniformDenominator =>
                        /\ raised' = "Blocked"
                        /\ mqs'.blocked_number = mqs.blocked_number + 1
                        /\ customer_number(mqs') = n
              /\ ~ (e.t = "a" /\ mqs.K <= n /\ n < 2 * mqs.K) =>
                   /\ mqs'.uniform_calls = mqs.uniform_calls
                   /\ mqs'.uniform_seed = mqs.uniform_seed
              /\ starts \in {0, 1}
              /\ mqs'.service_calls = mqs.service_calls + starts
              /\ arrival_calls' - arrival_calls
                     = total_number' - total_number
              /\ total_number' - total_number
                     = IF e.t = "a" THEN 1 ELSE 0]_vars
    /\ [](pc \in {"running", "finished"} =>
            /\ arrival_calls = total_number
            /\ mqs.service_calls
                   = departure_event_number + NumberOf(event_list, "d"))

\* an arrival between K and 2K has just been blocked by a variate below 0.5
C4_Witness ==
    /\ pc = "running"
    /\ raised = "Blocked"
    /\ customer_number(mqs) < 2 * mqs.K
    /\ mqs.uniform_calls >= 1
    /\ 2 * mqs.uniform_seed < UniformDenominator

\* C5: when an arrival is blocked, blocked_number grows by exactly 1, the
\* queue and used_server are unchanged, no service starts and no departure
\* is scheduled; the loop goes on, the blocked event is not put back, and the
\* next arrival is generated with the next customer id.
C5_BlockedArrivalDropped ==
    [][(pc = "running" /\ event_list # <<>> /\ raised' = "Blocked") =>
          LET e == Head(event_list)
          IN  /\ e.t = "a"
              /\ mqs'.blocked_number = mqs.blocked_number + 1
              /\ mqs'.queue = mqs.queue
              /\ mqs'.used_server = mqs.used_server
              /\ mqs'.service_calls = mqs.service_calls
              /\ NumberOf(event_list', "d") = NumberOf(event_list, "d")
              /\ pc' = "running"
              /\ \A i \in DOMAIN event_list' :
                     event_list'[i].customer # e.customer
              /\ total_number' = total_number + 1
              /\ \E i \in DOMAIN event_list' :
                     /\ event_list'[i].t = "a"
                     /\ event_list'[i].customer = e.customer + 1
                     /\ event_list'[i].time > mqs'.current_time]_vars

\* two arrivals have been blocked and the loop is still running, with the
\* arrival generated after the second one pending
C5_Witness ==
    /\ pc = "running"
    /\ raised = "Blocked"
    /\ mqs.blocked_number = 2
    /\ \E i \in DOMAIN event_list :
           event_list[i].t = "a" /\ event_list[i].customer = total_number

\* C6: constructing the system with mu <= 0, or the driver with
\* lambda_ <= 0, fails with a configuration error at construction: no system
\* is built, no event is generated and none is processed.
C6_InvalidRatesRejected ==
    (pc # "new" /\ (mu <= 0 \/ lambda_ <= 0)) =>
        /\ pc = "error"
        /\ raised = "ValueError"
        /\ mqs = NoMqs
        /\ event_list = <<>>
        /\ total_number = 0

\* C7: construction with K < 2 fails with the constructor's ValueError and
\* leaves no system (and nothing runs afterwards); construction with K >= 2,
\* K = 2 included, yields an empty system: no customers, no busy server,
\* clock 0, all accumulators 0.
C7_MinimumCapacity ==
    pc # "new" =>
        /\ K < 2 => /\ pc = "error"
                    /\ raised = "ValueError"
                    /\ mqs = NoMqs
                    /\ event_list = <<>>
                    /\ total_number = 0
        /\ K >= 2 => /\ mqs.exists
                     /\ mqs.K = K
                     /\ pc = "constructed" =>
                          /\ raised = "None"
                          /\ customer_number(mqs) = 0
                          /\ mqs.queue = <<>>
                          /\ mqs.used_server = 0
                          /\ mqs.current_time = 0
                          /\ mqs.total_operation_time = 0
                          /\ mqs.blocked_number = 0
                          /\ mqs.total_time = 0
                          /\ mqs.number_time_product_sum = 0

\* the constructor has rejected K = 1
C7_Witness ==
    /\ K = 1
    /\ pc = "error"
    /\ raised = "ValueError"
    /\ mqs = NoMqs

\* C8: a failure of the assertion of idle_server inside process_event ends
\* the run: the driver does not catch it and go on with further events.
C8_ViolationIsFatal == raised = "AssertionError" => pc = "error"

\* C9: with positive rates the loop finishes; it is finished exactly when
\* departure_event_number = times, the step that finishes it pops a
\* departure and applies it to the system (clock, used_server), and nothing
\* is processed afterwards.
C9_Terminates ==
    /\ <>(pc = "finished")
    /\ [](pc = "finished" => departure_event_number = times)
    /\ [](pc = "running" => departure_event_number < times)
    /\ [][(pc = "running" /\ pc' = "finished") =>
             /\ event_list # <<>>
             /\ Head(event_list).t = "d"
             /\ departure_event_number' = departure_event_number + 1
             /\ mqs'.current_time = Head(event_list).time
             /\ mqs'.used_server = mqs.used_server - 1
                    + (mqs'.service_calls - mqs.service_calls)]_vars
    /\ [][pc = "finished" => UNCHANGED vars]_vars

\* a run with a target of at least two departures has finished
C9_Witness ==
    /\ pc = "finished"
    /\ times >= 2
    /\ departure_event_number = times

\* C10: at every loop test after the first arrival is seeded the event list
\* is non-empty and holds exactly one arrival event, whose customer id is
\* total_number; the seeded id is 1 and total_number grows by 1 per arrival
\* popped (admitted or blocked) and by 0 per departure popped.
C10_OnePendingArrival ==
    /\ [](pc \in {"running", "finished"} =>
            /\ event_list # <<>>
            /\ raised # "IndexError"
            /\ NumberOf(event_list, "a") = 1
            /\ \A i \in DOMAIN event_list :
                   event_list[i].t = "a" =>
                       event_list[i].customer = total_number)
    /\ [][(pc = "constructed" /\ pc' # "constructed") =>
             total_number' = 1]_vars
    /\ [][(pc = "running" /\ event_list # <<>>) =>
             total_number' = total_number
                 + (IF Head(event_list).t = "a" THEN 1 ELSE 0)]_vars

\* after a blocked arrival the fourth or a later customer is the next event
C10_Witness ==
    /\ pc = "running"
    /\ mqs.blocked_number >= 1
    /\ total_number >= 4
    /\ Head(event_list).t = "a"
    /\ Head(event_list).customer = total_number

\* C11: the event list is ordered by time, so the event popped has the
\* smallest time of all pending events; an iteration keeps the events that
\* stay pending in their order and places each event it inserts behind
\* every pending event with the same or a smaller time (a departure and an
\* arrival inserted in the same iteration keep that order when their times
\* are equal), so that among events with equal times the one inserted first
\* is popped first; and the event popped is never earlier than the clock.
C11_EarliestFirstStable ==
    /\ [](pc \in {"running", "finished"} =>
            /\ \A i, j \in DOMAIN event_list :
                   i < j => event_list[i].time <= event_list[j].time
            /\ event_list # <<>> =>
                   Head(event_list).time >= mqs.current_time)
    /\ [][(pc = "running" /\ event_list # <<>>) =>
             LET old == Tail(event_list)
                 IsOld(e) == \E k \in DOMAIN old : old[k] = e
             IN  /\ \A i, j \in DOMAIN old :
                        i < j =>
                          \E p, q \in DOMAIN event_list' :
                              /\ p < q
                              /\ event_list'[p] = old[i]
                              /\ event_list'[q] = old[j]
                 /\ \A p, q \in DOMAIN event_list' :
                        (/\ p < q
                         /\ ~ IsOld(event_list'[p])
                         /\ event_list'[p].time = event_list'[q].time)
                        => /\ ~ IsOld(event_list'[q])
                           /\ event_list'[p].t = "d"
                           /\ event_list'[q].t = "a"]_vars

\* two pending events have the same time and the one inserted first, a
\* departure, is the next to be popped
C11_Witness ==
    /\ pc = "running"
    /\ Len(event_list) >= 2
    /\ event_list[1].time = event_list[2].time
    /\ event_list[1].t = "d"
    /\ event_list[2].t = "a"
    /\ event_list[1].customer < event_list[2].customer - 1

\* C12: in every state the driver reaches, for every arrival pending and
\* every value of the variates, when process_event admits the arrival and
\* returns a departure event, processing that departure event next leaves
\* customer_number at the value it had before the arrival was processed.
C12_ArrivalThenDepartureRestoresCount ==
    pc = "running" =>
        \A i \in DOMAIN event_list :
            event_list[i].t = "a" =>
                \A u1, u2 \in UniformValues :
                    \A op1, op2 \in Exponential(mqs.mu, MaxServiceInterval) :
                        LET first == process_event(mqs, event_list[i], u1, op1)
                        IN  (first.raised = "None" /\ first.ret # <<>>) =>
                                LET second == process_event(first.mqs,
                                                  first.ret[1], u2, op2)
                                IN  /\ second.raised = "None"
                                    /\ customer_number(second.mqs) =
                                           customer_number(mqs)

\* the driver has processed the first arrival, which was admitted and
\* returned a departure event, and then that departure event, before any
\* other arrival: the system is empty again
C12_Witness ==
    /\ pc \in {"running", "finished"}
    /\ total_number = 2
    /\ departure_event_number = 1
    /\ mqs.service_calls = 1
    /\ mqs.blocked_number = 0
    /\ customer_number(mqs) = 0

\* C13: two runs of the sweep made with the same K, mu, lambda_ and times
\* print the same events in the same order and leave the same accumulators;
\* a run under way has printed so far what the first run printed: no
\* generator position or other state of an earlier run reaches a later run.
C13_RunsReproduce ==
    /\ \A i, j \in DOMAIN results :
           results[i].lambda_ = results[j].lambda_ => results[i] = results[j]
    /\ (/\ results # <<>>
        /\ pc \in {"running", "finished"}
        /\ lambda_ = results[1].lambda_)
       => /\ Len(printed) <= Len(results[1].printed)
          /\ printed = SubSeq(results[1].printed, 1, Len(printed))

\* two runs are over, in which the three generators were called and a
\* customer was blocked
C13_Witness ==
    /\ Len(results) = 2
    /\ results[2].blocked_number > 0
    /\ Len(results[2].printed) >= 5
    /\ mqs.uniform_calls >= 2
    /\ mqs.service_calls >= 2
    /\ arrival_calls >= 5

\* C14: at every test of the loop the number of blocked customers is at
\* most the number of arrivals generated, and the arrivals popped so far
\* (all the arrivals generated but the one pending) are the blocked
\* customers, the customers in the system and the departures popped; an
\* iteration adds one to departure_event_number when it pops a departure
\* and nothing when it pops an arrival.
C14_CustomerConservation ==
    /\ [](pc \in {"running", "finished"} =>
            /\ mqs.blocked_number <= total_number
            /\ total_number - 1 = mqs.blocked_number + customer_number(mqs)
                                    + departure_event_number)
    /\ [][(pc = "running" /\ event_list # <<>>) =>
             departure_event_number' =
                 departure_event_number
                   + (IF Head(event_list).t = "d" THEN 1 ELSE 0)]_vars

\* a loop test after a customer was blocked and a departure was popped,
\* with customers in the system
C14_Witness ==
    /\ pc = "running"
    /\ mqs.blocked_number >= 1
    /\ departure_event_number >= 1
    /\ customer_number(mqs) >= 1

\* the positions of the departures among the events printed
DeparturesPrinted == {i \in DOMAIN printed : printed[i].t = "d"}

\* the last departure printed
LastDeparture ==
    printed[CHOOSE i \in DeparturesPrinted :
                \A j \in DeparturesPrinted : j <= i]

\* the time at which the arrival of a customer was printed in out
ArrivalTime(out, customer) ==
    out[CHOOSE i \in DOMAIN out :
            out[i].t = "a" /\ out[i].customer = customer].time

\* C15 as stated: once a customer has departed, total_time is the time in
\* the system (departure time less arrival time) of the customer that
\* departed last.
C15_SojournOfLastDeparted ==
    (pc \in {"running", "finished"} /\ DeparturesPrinted # {}) =>
        mqs.total_time =
            LastDeparture.time - ArrivalTime(printed, LastDeparture.customer)

\* C15 amended: total_time is the time in the system of the customer whose
\* service started last: an iteration that starts a service sets it to the
\* time of the departure event it schedules less the arrival time of that
\* customer, and any other iteration leaves it as it is.
C15_SojournOfLastStarted ==
    [][(pc = "running" /\ event_list # <<>>) =>
          IF mqs'.service_calls > mqs.service_calls
          THEN \E i \in DOMAIN event_list' :
                  /\ event_list'[i].t = "d"
                  /\ \A j \in DOMAIN event_list :
                         event_list[j] # event_list'[i]
                  /\ mqs'.total_time =
                         event_list'[i].time
                           - ArrivalTime(printed', event_list'[i].customer)
          ELSE mqs'.total_time = mqs.total_time]_vars

\* a customer has departed and the customer whose service started last is
\* another one, who waited in the queue and has a different time in the
\* system
C15_Witness ==
    /\ pc \in {"running", "finished"}
    /\ DeparturesPrinted # {}
    /\ mqs.service_calls >= 3
    /\ mqs.total_time #
           LastDeparture.time - ArrivalTime(printed, LastDeparture.customer)

\* C16: number_time_product_sum and current_time are 0 before the first
\* event; every event processed, whether it is an arrival admitted, an
\* arrival blocked or a departure, adds to number_time_product_sum the
\* customer count before the event times the time since the event before
\* it, and leaves current_time at the time of the event.
C16_AreaUnderCustomerCurve ==
    /\ [](pc = "constructed" =>
              mqs.number_time_product_sum = 0 /\ mqs.current_time = 0)
    /\ [][(pc = "running" /\ event_list # <<>>) =>
             /\ mqs'.number_time_product_sum =
                    mqs.number_time_product_sum
                      + customer_number(mqs)
                          * (Head(event_list).time - mqs.current_time)
             /\ mqs'.current_time = Head(event_list).time]_vars

\* the sum has grown while a customer was blocked and after a departure
C16_Witness ==
    /\ pc \in {"running", "finished"}
    /\ raised = "Blocked"
    /\ departure_event_number >= 1
    /\ mqs.number_time_product_sum > mqs.current_time

\* C17: a call of process_event starts at most one service, and after it no
\* customer waits in the queue while a usable server is idle, so that a
\* second pass through the promotion step would start no service and leave
\* the system as it is: the call has drained the idle capacity.
C17_OnePromotionDrains ==
    /\ [](pc \in {"running", "finished"} =>
            /\ mqs.queue # <<>> => idle_server(mqs) = 0
            /\ \A op \in Exponential(mqs.mu, MaxServiceInterval) :
                   /\ start_service(mqs, op).ret = <<>>
                   /\ start_service(mqs, op).mqs = mqs)
    /\ [][(pc = "running" /\ event_list # <<>>) =>
             /\ mqs'.service_calls <= mqs.service_calls + 1
             /\ mqs'.used_server <= mqs.used_server + 1
             /\ Len(mqs'.queue) >= Len(mqs.queue) - 1]_vars

\* the arrival that took the count to K = 3 made a second server usable
\* while two customers waited: one service started and one customer waits
C17_Witness ==
    /\ pc = "running"
    /\ mqs.K = 3
    /\ customer_number(mqs) = 3
    /\ mqs.service_calls = 2
    /\ mqs.used_server = 2
    /\ Len(mqs.queue) = 1
    /\ departure_event_number = 0

\* C18: customers enter service in the order of their ids. The ids in the
\* queue increase from its head and are below the id of the next arrival; a
\* call that starts a service takes the head of the queue (with the arrival
\* of this call at its end) and leaves the rest in the queue, and the
\* departure event it returns has the id of that customer, an id above those
\* of the departures pending, and the time current_time plus the service
\* time, not before current_time.
C18_FirstInFirstServed ==
    /\ [](pc \in {"running", "finished"} =>
            /\ \A i, j \in DOMAIN mqs.queue :
                   i < j => mqs.queue[i].customer < mqs.queue[j].customer
            /\ \A i \in DOMAIN mqs.queue :
                   mqs.queue[i].customer < total_number)
    /\ [][(/\ pc = "running"
           /\ event_list # <<>>
           /\ mqs'.service_calls > mqs.service_calls) =>
             LET waiting == IF Head(event_list).t = "a"
                            THEN Append(mqs.queue, Head(event_list))
                            ELSE mqs.queue
                 duration == mqs'.total_operation_time
                               - mqs.total_operation_time
             IN  /\ mqs'.queue = Tail(waiting)
                 /\ \E i \in DOMAIN event_list' :
                        /\ event_list'[i] =
                               Event("d", mqs'.current_time + duration,
                                     Head(waiting).customer)
                        /\ event_list'[i].time >= mqs'.current_time
                        /\ \A j \in DOMAIN event_list :
                               event_list[j].t = "d" =>
                                   event_list[j].customer
                                       < event_list'[i].customer]_vars

\* after a departure, services have started for three customers and
\* another customer still waits behind them
C18_Witness ==
    /\ pc = "running"
    /\ departure_event_number >= 1
    /\ mqs.service_calls >= 3
    /\ mqs.queue # <<>>
    /\ \E i \in DOMAIN event_list :
           /\ event_list[i].t = "d"
           /\ event_list[i].customer >= 3
           /\ event_list[i].customer < Head(mqs.queue).customer

\* C19: at every test of the loop _used_server is the number of departure
\* events in the event list, so it is not negative and a departure event is
\* popped only when a server is busy; and when there are customers in the
\* system a departure event is pending.
C19_BusyServersHavePendingDepartures ==
    pc \in {"running", "finished"} =>
        /\ mqs.used_server = NumberOf(event_list, "d")
        /\ mqs.used_server >= 0
        /\ (event_list # <<>> /\ Head(event_list).t = "d") =>
               mqs.used_server >= 1
        /\ customer_number(mqs) > 0 =>
               \E i \in DOMAIN event_list : event_list[i].t = "d"

\* both servers are busy, a customer waits, and a departure is the next
\* event
C19_Witness ==
    /\ pc = "running"
    /\ mqs.used_server = 2
    /\ mqs.queue # <<>>
    /\ NumberOf(event_list, "d") = 2
    /\ Head(event_list).t = "d"

\* C20: when the run has finished, total_operation_time is the server time
\* spent up to current_time: it is at most m times current_time, so the
\* utilization total_operation_time / (current_time * m) lies in [0, 1].
C20_UtilizationAtMostOne ==
    pc = "finished" =>
        /\ 0 <= mqs.total_operation_time
        /\ mqs.total_operation_time <= mqs.m * mqs.current_time

====
